---------------------------- MODULE Spec2Model ----------------------------
(***************************************************************************)
(* SpookyHash (C port, spooky-c.c): the 64-bit mixing primitives, the      *)
(* short-hash routine, the one-shot digests and the streaming engine       *)
(* (spooky_init / spooky_update / spooky_final).                           *)
(*                                                                         *)
(* A uint64_t is a tuple of four 16-bit limbs, least significant first     *)
(* (TLC integers are 32 bits wide); every operation is modulo 2^64.        *)
(* A byte buffer is a sequence of bytes; C offset i is element i+1.        *)
(***************************************************************************)
EXTENDS Integers, Sequences, FiniteSets, TLC

----------------------------------------------------------------------------
(* 64-bit words *)

LimbMod == 2^16
ByteMod == 2^8

Pow2 == [n \in 0..16 |-> 2^n]

RECURSIVE XorBits(_, _, _)
XorBits(a, b, n) ==
    IF n = 0 THEN 0
    ELSE ((a + b) % 2) + 2 * XorBits(a \div 2, b \div 2, n - 1)

RECURSIVE OrBits(_, _, _)
OrBits(a, b, n) ==
    IF n = 0 THEN 0
    ELSE (IF (a % 2) + (b % 2) > 0 THEN 1 ELSE 0)
         + 2 * OrBits(a \div 2, b \div 2, n - 1)

XorNib == [a \in 0..15 |-> [b \in 0..15 |-> XorBits(a, b, 4)]]
OrNib == [a \in 0..15 |-> [b \in 0..15 |-> OrBits(a, b, 4)]]

XorLimb(a, b) ==
    XorNib[a % 16][b % 16]
    + 16 * XorNib[(a \div 16) % 16][(b \div 16) % 16]
    + 256 * XorNib[(a \div 256) % 16][(b \div 256) % 16]
    + 4096 * XorNib[a \div 4096][b \div 4096]

OrLimb(a, b) ==
    OrNib[a % 16][b % 16]
    + 16 * OrNib[(a \div 16) % 16][(b \div 16) % 16]
    + 256 * OrNib[(a \div 256) % 16][(b \div 256) % 16]
    + 4096 * OrNib[a \div 4096][b \div 4096]

Zero64 == <<0, 0, 0, 0>>

\* (uint64_t)n for a small non-negative integer n (n < 2^31)
U64(n) == <<n % LimbMod, (n \div LimbMod) % LimbMod, 0, 0>>

\* x + y modulo 2^64
Add64(x, y) ==
    LET s1 == x[1] + y[1]
        s2 == x[2] + y[2] + (s1 \div LimbMod)
        s3 == x[3] + y[3] + (s2 \div LimbMod)
        s4 == x[4] + y[4] + (s3 \div LimbMod)
    IN  <<s1 % LimbMod, s2 % LimbMod, s3 % LimbMod, s4 % LimbMod>>

Xor64(x, y) ==
    <<XorLimb(x[1], y[1]), XorLimb(x[2], y[2]),
      XorLimb(x[3], y[3]), XorLimb(x[4], y[4])>>

Or64(x, y) ==
    <<OrLimb(x[1], y[1]), OrLimb(x[2], y[2]),
      OrLimb(x[3], y[3]), OrLimb(x[4], y[4])>>

\* limb i (0-based) of x, zero outside the word
LimbAt(x, i) == IF i >= 0 /\ i <= 3 THEN x[i + 1] ELSE 0

\* x << k on 64 bits, 0 <= k <= 63
Shl64(x, k) ==
    LET q == k \div 16
        r == k % 16
        L(i) == (LimbAt(x, i - q) % Pow2[16 - r]) * Pow2[r]
                + (LimbAt(x, i - q - 1) \div Pow2[16 - r])
    IN  <<L(0), L(1), L(2), L(3)>>

\* x >> k on 64 bits, 0 <= k <= 63
Shr64(x, k) ==
    LET q == k \div 16
        r == k % 16
        L(i) == (LimbAt(x, i + q) \div Pow2[r])
                + (LimbAt(x, i + q + 1) % Pow2[r]) * Pow2[16 - r]
    IN  <<L(0), L(1), L(2), L(3)>>

rot64(x, k) == Or64(Shl64(x, k), Shr64(x, 64 - k))

\* SC_CONST = 0xdeadbeefdeadbeef
SC_CONST == <<48879, 57005, 48879, 57005>>

SC_NUMVARS == 12
SC_BLOCKSIZE == 96

----------------------------------------------------------------------------
(* reading words out of a byte buffer (little endian) *)

\* the byte at C offset off
ByteAt(buf, off) == buf[off + 1]

\* *(uint64_t *)(buf + off)
Read64(buf, off) ==
    <<ByteAt(buf, off)     + ByteMod * ByteAt(buf, off + 1),
      ByteAt(buf, off + 2) + ByteMod * ByteAt(buf, off + 3),
      ByteAt(buf, off + 4) + ByteMod * ByteAt(buf, off + 5),
      ByteAt(buf, off + 6) + ByteMod * ByteAt(buf, off + 7)>>

\* mutant: a 16-bit read where the code reads 32 bits
Read32_low16(buf, off) ==
    <<ByteAt(buf, off) + ByteMod * ByteAt(buf, off + 1), 0, 0, 0>>

\* (uint64_t)*(uint32_t *)(buf + off)
Read32(buf, off) ==
    <<ByteAt(buf, off)     + ByteMod * ByteAt(buf, off + 1),
      ByteAt(buf, off + 2) + ByteMod * ByteAt(buf, off + 3), 0, 0>>

\* (uint64_t)buf[off]
Read8(buf, off) == <<ByteAt(buf, off), 0, 0, 0>>

\* the twelve words of the 96-byte block at C offset off
BlockAt(buf, off) == [i \in 1..SC_NUMVARS |-> Read64(buf, off + 8 * (i - 1))]

----------------------------------------------------------------------------
(* the mixers; accumulator hN is element N+1 of the vector *)

Get(h, i) == h[i + 1]
Put(h, i, v) == [h EXCEPT ![i + 1] = v]

\* e, with v evaluated first: the statements of the C code run in order, and
\* each value is computed once before the next statement uses it
Strict(v, e) == IF v = v THEN e ELSE e

\* the four kinds of statement the mixers are made of, on the vector h
\*   *h_i += w;
AddWord(h, i, w) == Put(h, i, Add64(Get(h, i), w))
\*   *h_i += *h_j;
AddVar(h, i, j) == Put(h, i, Add64(Get(h, i), Get(h, j)))
\*   *h_i ^= *h_j;
XorVar(h, i, j) == Put(h, i, Xor64(Get(h, i), Get(h, j)))
\*   *h_i = rot64(*h_i, k);
RotVar(h, i, k) == Put(h, i, rot64(Get(h, i), k))

\* one line of mix():
\*   *h_i += data[i]; *h_r = rot64(*h_r,k); *h_x ^= *h_y; *h_r += *h_s; *h_y += *h_s;
MixLine(h, data, i, r, k, x, y, s) ==
    AddVar(AddVar(XorVar(RotVar(AddWord(h, i, Get(data, i)), r, k), x, y), r, s), y, s)

\* mutant: the rotate of the eighth line with its digits swapped, 31 for 13
MixWiring_rot31 ==
    << <<0,  11, 32, 9,  1,  10>>,
       <<1,  0,  41, 10, 2,  11>>,
       <<2,  1,  12, 11, 3,  0>>,
       <<3,  2,  24, 0,  4,  1>>,
       <<4,  3,  8,  1,  5,  2>>,
       <<5,  4,  42, 2,  6,  3>>,
       <<6,  5,  32, 3,  7,  4>>,
       <<7,  6,  31, 4,  8,  5>>,
       <<8,  7,  30, 5,  9,  6>>,
       <<9,  8,  20, 6,  10, 7>>,
       <<10, 9,  47, 7,  11, 8>>,
       <<11, 10, 16, 8,  0,  9>> >>

\* the twelve lines of mix(), one row <<i, r, k, x, y, s>> per line
MixWiring ==
    << <<0,  11, 32, 9,  1,  10>>,
       <<1,  0,  41, 10, 2,  11>>,
       <<2,  1,  12, 11, 3,  0>>,
       <<3,  2,  24, 0,  4,  1>>,
       <<4,  3,  8,  1,  5,  2>>,
       <<5,  4,  42, 2,  6,  3>>,
       <<6,  5,  32, 3,  7,  4>>,
       <<7,  6,  13, 4,  8,  5>>,
       <<8,  7,  30, 5,  9,  6>>,
       <<9,  8,  20, 6,  10, 7>>,
       <<10, 9,  47, 7,  11, 8>>,
       <<11, 10, 16, 8,  0,  9>> >>

\* lines n .. 12 of mix(), in order
RECURSIVE MixLines(_, _, _)
MixLines(data, h, n) ==
    IF n > Len(MixWiring) THEN h
    ELSE LET w == MixWiring[n]
             hn == MixLine(h, data, w[1], w[2], w[3], w[4], w[5], w[6])
         IN  Strict(hn, MixLines(data, hn, n + 1))

mix(data, h) == MixLines(data, h, 1)

\* one line of end():  *h_a = rot64(*h_a,k); *h_x ^= *h_y; *h_a += *h_x;
EndLine(h, a, k, x, y) == AddVar(XorVar(RotVar(h, a, k), x, y), a, x)

\* the twelve lines of one pass of end(), one row <<a, k, x, y>> per line
EndWiring ==
    << <<0,  29, 2,  11>>,
       <<1,  52, 3,  0>>,
       <<2,  31, 4,  1>>,
       <<3,  43, 5,  2>>,
       <<4,  56, 6,  3>>,
       <<5,  34, 7,  4>>,
       <<6,  21, 8,  5>>,
       <<7,  17, 9,  6>>,
       <<8,  44, 10, 7>>,
       <<9,  38, 11, 8>>,
       <<10, 50, 0,  9>>,
       <<11, 50, 1,  10>> >>

RECURSIVE EndLines(_, _)
EndLines(h, n) ==
    IF n > Len(EndWiring) THEN h
    ELSE LET w == EndWiring[n]
             hn == EndLine(h, w[1], w[2], w[3], w[4])
         IN  Strict(hn, EndLines(hn, n + 1))

\* end(): the pass "once", then the same pass "twice"
end(h) == EndLines(EndLines(h, 1), 1)

\* one line of short_mix():  *h_a = rot64(*h_a,k); *h_a += *h_y; *h_x ^= *h_a;
ShortMixLine(h, a, k, y, x) == XorVar(AddVar(RotVar(h, a, k), a, y), x, a)

\* the twelve lines of short_mix(), one row <<a, k, y, x>> per line
ShortMixWiring ==
    << <<2, 50, 3, 0>>,
       <<3, 52, 0, 1>>,
       <<0, 30, 1, 2>>,
       <<1, 41, 2, 3>>,
       <<2, 54, 3, 0>>,
       <<3, 48, 0, 1>>,
       <<0, 38, 1, 2>>,
       <<1, 37, 2, 3>>,
       <<2, 62, 3, 0>>,
       <<3, 34, 0, 1>>,
       <<0, 5,  1, 2>>,
       <<1, 36, 2, 3>> >>

RECURSIVE ShortMixLines(_, _)
ShortMixLines(h, n) ==
    IF n > Len(ShortMixWiring) THEN h
    ELSE LET w == ShortMixWiring[n]
             hn == ShortMixLine(h, w[1], w[2], w[3], w[4])
         IN  Strict(hn, ShortMixLines(hn, n + 1))

\* h = <<a, b, c, d>>
short_mix(h) == ShortMixLines(h, 1)

\* one line of short_end():  *h_x ^= *h_y; *h_y = rot64(*h_y,k); *h_x += *h_y;
ShortEndLine(h, x, y, k) == AddVar(RotVar(XorVar(h, x, y), y, k), x, y)

\* the eleven lines of short_end(), one row <<x, y, k>> per line
ShortEndWiring ==
    << <<3, 2, 15>>,
       <<0, 3, 52>>,
       <<1, 0, 26>>,
       <<2, 1, 51>>,
       <<3, 2, 28>>,
       <<0, 3, 9>>,
       <<1, 0, 47>>,
       <<2, 1, 54>>,
       <<3, 2, 32>>,
       <<0, 3, 25>>,
       <<1, 0, 63>> >>

RECURSIVE ShortEndLines(_, _)
ShortEndLines(h, n) ==
    IF n > Len(ShortEndWiring) THEN h
    ELSE LET w == ShortEndWiring[n]
             hn == ShortEndLine(h, w[1], w[2], w[3])
         IN  Strict(hn, ShortEndLines(hn, n + 1))

short_end(h) == ShortEndLines(h, 1)

----------------------------------------------------------------------------
(* byte buffers *)

\* memcpy(dst + doff, src + soff, n)
Memcpy(dst, doff, src, soff, n) ==
    [i \in 1..Len(dst) |->
        IF i - 1 >= doff /\ i - 1 < doff + n THEN src[soff + (i - doff)]
        ELSE dst[i]]

\* memset(dst + doff, v, n)
Memset(dst, doff, v, n) ==
    [i \in 1..Len(dst) |->
        IF i - 1 >= doff /\ i - 1 < doff + n THEN v ELSE dst[i]]

\* ((uint8_t *)dst)[off] = v
PutByte(dst, off, v) == [dst EXCEPT ![off + 1] = v]

----------------------------------------------------------------------------
(* spooky_shorthash *)

\* c += u.p64[0]; d += u.p64[1]; short_mix(&a, &b, &c, &d);   (h = <<a, b, c, d>>)
ShortHalf(message, pos, h) ==
    short_mix(AddWord(AddWord(h, 2, Read64(message, pos)), 3, Read64(message, pos + 8)))

\* the body of the loop: ShortHalf, then a += u.p64[2]; b += u.p64[3];
ShortSet(message, pos, h) ==
    AddWord(AddWord(ShortHalf(message, pos, h), 0, Read64(message, pos + 16)),
            1, Read64(message, pos + 24))

\* for (; u.p64 < endp; u.p64 += 4) { ... }
RECURSIVE ShortLoop(_, _, _, _)
ShortLoop(message, pos, endp, h) ==
    IF pos < endp
    THEN LET h1 == ShortSet(message, pos, h)
         IN  Strict(h1, ShortLoop(message, pos + 32, endp, h1))
    ELSE h

\* if (remainder >= 16) { ... }, h the variables after the loop
ShortSixteen(message, endp, remainder, h) ==
    IF remainder >= 16
    THEN [h |-> ShortHalf(message, endp, h), pos |-> endp + 16,
          remainder |-> remainder - 16]
    ELSE [h |-> h, pos |-> endp, remainder |-> remainder]

\* the if (length > 15) { ... } part: the 32-byte sets and the 16-byte chunk
ShortChunks(message, length, hash1, hash2) ==
    IF length > 15
    THEN ShortSixteen(message, (length \div 32) * 32, length % 32,
                      ShortLoop(message, 0, (length \div 32) * 32,
                                <<hash1, hash2, Zero64, Zero64>>))
    ELSE [h |-> <<hash1, hash2, Zero64, Zero64>>, pos |-> 0,
          remainder |-> length % 32]

\* d = ((uint64_t)length) << 56;
ShortLengthTag(d, length) == Shl64(U64(length), 56)

\* switch (remainder) { case 15: ... case 0: ... } with its fall-throughs;
\* p is the offset of u.p8 in message, cd = <<c, d>>
\* c += w;  cd = <<c, d>>
TailAddC(cd, w) == <<Add64(cd[1], w), cd[2]>>

\* mutant: the accumulators mixed up, d's bytes added to c
TailAddD_intoC(cd, w) == <<Add64(cd[1], w), cd[2]>>

\* d += w;
TailAddD(cd, w) == <<cd[1], Add64(cd[2], w)>>

RECURSIVE ShortTail(_, _, _, _)
ShortTail(message, p, r, cd) ==
    CASE r = 15 -> ShortTail(message, p, 14, TailAddD(cd, Shl64(Read8(message, p + 14), 48)))
      [] r = 14 -> ShortTail(message, p, 13, TailAddD(cd, Shl64(Read8(message, p + 13), 40)))
      [] r = 13 -> ShortTail(message, p, 12, TailAddD(cd, Shl64(Read8(message, p + 12), 32)))
      [] r = 12 -> TailAddC(TailAddD(cd, Read32(message, p + 8)), Read64(message, p))
      [] r = 11 -> ShortTail(message, p, 10, TailAddD(cd, Shl64(Read8(message, p + 10), 16)))
      [] r = 10 -> ShortTail(message, p, 9, TailAddD(cd, Shl64(Read8(message, p + 9), 8)))
      [] r = 9  -> ShortTail(message, p, 8, TailAddD(cd, Read8(message, p + 8)))
      [] r = 8  -> TailAddC(cd, Read64(message, p))
      [] r = 7  -> ShortTail(message, p, 6, TailAddC(cd, Shl64(Read8(message, p + 6), 48)))
      [] r = 6  -> ShortTail(message, p, 5, TailAddC(cd, Shl64(Read8(message, p + 5), 40)))
      [] r = 5  -> ShortTail(message, p, 4, TailAddC(cd, Shl64(Read8(message, p + 4), 32)))
      [] r = 4  -> TailAddC(cd, Read32(message, p))
      [] r = 3  -> ShortTail(message, p, 2, TailAddC(cd, Shl64(Read8(message, p + 2), 16)))
      [] r = 2  -> ShortTail(message, p, 1, TailAddC(cd, Shl64(Read8(message, p + 1), 8)))
      [] r = 1  -> TailAddC(cd, Read8(message, p))
      [] r = 0  -> TailAddD(TailAddC(cd, SC_CONST), SC_CONST)

\* short_end(&a, &b, &c, &d); *hash1 = a; *hash2 = b;  with the accumulators at
\* the three points before it: ch after the chunks, tagged the d of line 234,
\* packed = <<c, d>> after the switch
ShortFinish(ch, tagged, packed, fin) ==
    [hash1 |-> Get(fin, 0), hash2 |-> Get(fin, 1),
     chunks |-> ch.h, tailpos |-> ch.pos, tail |-> ch.remainder,
     tagged |-> tagged, packed |-> packed]

ShortAfterTail(ch, tagged, packed) ==
    ShortFinish(ch, tagged, packed,
                short_end(<<Get(ch.h, 0), Get(ch.h, 1), packed[1], packed[2]>>))

ShortAfterTag(message, ch, tagged) ==
    ShortAfterTail(ch, tagged,
                   ShortTail(message, ch.pos, ch.remainder, <<Get(ch.h, 2), tagged>>))

ShortAfterChunks(message, length, ch) ==
    Strict(ch, ShortAfterTag(message, ch, ShortLengthTag(Get(ch.h, 3), length)))

\* spooky_shorthash(message, length, &hash1, &hash2): the two output words, and
\* the accumulators at the three points between its steps
spooky_shorthash(message, length, hash1, hash2) ==
    ShortAfterChunks(message, length, ShortChunks(message, length, hash1, hash2))

\* the n byte offsets from off on: what a read or write of n bytes at off touches
Span(off, n) == off..(off + n - 1)

\* the offsets of message the loop over the sets of 32 bytes reads:
\* u.p64[0], u.p64[1], u.p64[2], u.p64[3] in each pass
RECURSIVE ShortLoopReads(_, _)
ShortLoopReads(pos, endp) ==
    IF pos < endp
    THEN Span(pos, 8) \cup Span(pos + 8, 8) \cup Span(pos + 16, 8)
         \cup Span(pos + 24, 8) \cup ShortLoopReads(pos + 32, endp)
    ELSE {}

\* if (remainder >= 16) reads u.p64[0] and u.p64[1]
ShortSixteenReads(endp, remainder) ==
    IF remainder >= 16 THEN Span(endp, 8) \cup Span(endp + 8, 8) ELSE {}

\* the offsets read by the if (length > 15) { ... } part
ShortChunksReads(length) ==
    IF length > 15
    THEN ShortLoopReads(0, (length \div 32) * 32)
         \cup ShortSixteenReads((length \div 32) * 32, length % 32)
    ELSE {}

\* the offsets read by switch (remainder), case by case with the fall-throughs:
\* u.p8[k] one byte, u.p32[k] four bytes at 4k, u.p64[0] eight bytes at 0
RECURSIVE ShortTailReads(_, _)
ShortTailReads(p, r) ==
    CASE r = 15 -> Span(p + 14, 1) \cup ShortTailReads(p, 14)
      [] r = 14 -> Span(p + 13, 1) \cup ShortTailReads(p, 13)
      [] r = 13 -> Span(p + 12, 1) \cup ShortTailReads(p, 12)
      [] r = 12 -> Span(p + 8, 4) \cup Span(p, 8)
      [] r = 11 -> Span(p + 10, 1) \cup ShortTailReads(p, 10)
      [] r = 10 -> Span(p + 9, 1) \cup ShortTailReads(p, 9)
      [] r = 9  -> Span(p + 8, 1) \cup ShortTailReads(p, 8)
      [] r = 8  -> Span(p, 8)
      [] r = 7  -> Span(p + 6, 1) \cup ShortTailReads(p, 6)
      [] r = 6  -> Span(p + 5, 1) \cup ShortTailReads(p, 5)
      [] r = 5  -> Span(p + 4, 1) \cup ShortTailReads(p, 4)
      [] r = 4  -> Span(p, 4)
      [] r = 3  -> Span(p + 2, 1) \cup ShortTailReads(p, 2)
      [] r = 2  -> Span(p + 1, 1) \cup ShortTailReads(p, 1)
      [] r = 1  -> Span(p, 1)
      [] r = 0  -> {}

\* the offsets of message spooky_shorthash reads, the switch entered at offset
\* pos with remainder bytes left. Unless direct (ALLOW_UNALIGNED_READS, or the
\* message aligned) the message is first copied, memcpy(buf, message, length),
\* and the same offsets are then read from the copy.
ShorthashReads(length, pos, remainder, direct) ==
    (IF direct THEN {} ELSE Span(0, length))
    \cup ShortChunksReads(length) \cup ShortTailReads(pos, remainder)

----------------------------------------------------------------------------
(* spooky_hash128, spooky_hash64, spooky_hash32 *)

\* h0 = h3 = h6 = h9 = seed1; h1 = h4 = h7 = h10 = seed2; h2 = h5 = h8 = h11 = SC_CONST
SeedVars(seed1, seed2) ==
    <<seed1, seed2, SC_CONST, seed1, seed2, SC_CONST,
      seed1, seed2, SC_CONST, seed1, seed2, SC_CONST>>

\* for (; u.p64 < endp; u.p64 += SC_NUMVARS) mix(u.p64, ...);  st = [h, mixed],
\* mixed the blocks handed to mix() so far
RECURSIVE BlockLoop(_, _, _, _)
BlockLoop(message, pos, endp, st) ==
    IF pos < endp
    THEN LET data == BlockAt(message, pos)
             st1 == [h |-> mix(data, st.h), mixed |-> Append(st.mixed, data)]
         IN  Strict(st1, BlockLoop(message, pos + SC_BLOCKSIZE, endp, st1))
    ELSE st

\* mutant: the threshold test off by one
Hash128IsShort_le(length) == length <= SC_BLOCKSIZE

\* does spooky_hash128 hand the message to spooky_shorthash
Hash128IsShort(length) == length < SC_BLOCKSIZE

\* the last partial block: memcpy, memset, ((uint8_t *)buf)[SC_BLOCKSIZE-1] = (uint8_t)length
Hash128LastBlock(message, endp, remainder, length) ==
    LET buf0 == [i \in 1..SC_BLOCKSIZE |-> 0]
        buf1 == Memcpy(buf0, 0, message, endp, remainder)
        buf2 == Memset(buf1, remainder, 0, SC_BLOCKSIZE - remainder)
    IN  PutByte(buf2, SC_BLOCKSIZE - 1, length % ByteMod)

spooky_hash128(message, length, hash1, hash2) ==
    IF Hash128IsShort(length)
    THEN LET s == spooky_shorthash(message, length, hash1, hash2)
         IN  [hash1 |-> s.hash1, hash2 |-> s.hash2, mixed |-> <<>>, path |-> "short"]
    ELSE LET endp == (length \div SC_BLOCKSIZE) * SC_BLOCKSIZE
             st == BlockLoop(message, 0, endp,
                             [h |-> SeedVars(hash1, hash2), mixed |-> <<>>])
             remainder == length - endp
             data == BlockAt(Hash128LastBlock(message, endp, remainder, length), 0)
             hm == mix(data, st.h)
             h == end(hm)
         IN  Strict(st, Strict(hm,
             [hash1 |-> Get(h, 0), hash2 |-> Get(h, 1),
              mixed |-> Append(st.mixed, data), path |-> "long"]))

\* mutant: the seed is not passed as the second seed
spooky_hash64_oneSeed(message, length, seed) ==
    spooky_hash128(message, length, seed, Zero64).hash1

\* uint64_t hash1 = seed; spooky_hash128(message, length, &hash1, &seed); return hash1;
spooky_hash64(message, length, seed) ==
    spooky_hash128(message, length, seed, seed).hash1

\* a uint32_t is its two low limbs; (uint64_t)seed
Ext32(s) == <<s[1], s[2], 0, 0>>
\* (uint32_t)x
Trunc32(x) == <<x[1], x[2]>>

\* uint64_t hash1 = seed, hash2 = seed; spooky_hash128(...); return (uint32_t)hash1;
spooky_hash32(message, length, seed) ==
    Trunc32(spooky_hash128(message, length, Ext32(seed), Ext32(seed)).hash1)

----------------------------------------------------------------------------
(* the streaming engine: struct spooky_state and its three operations *)

\* mutant: the threshold test off by one
UpdateTooShort_le(newLength) == newLength <= SC_BLOCKSIZE

\* if (newLength < SC_BLOCKSIZE): the fragment is only stuffed away
UpdateTooShort(newLength) == newLength < SC_BLOCKSIZE

\* the whole blocks of message from offset pos up to endp. direct is
\* (ALLOW_UNALIGNED_READS || (u.i & 0x7) == 0): mix() reads the message in
\* place; otherwise each block is first copied into m_data.
\* st = [h, data, mixes]
RECURSIVE UpdateLoop(_, _, _, _, _)
UpdateLoop(message, pos, endp, direct, st) ==
    IF pos < endp
    THEN LET data == IF direct THEN st.data
                     ELSE Memcpy(st.data, 0, message, pos, SC_BLOCKSIZE)
             blk == IF direct THEN BlockAt(message, pos) ELSE BlockAt(data, 0)
             st1 == [h |-> mix(blk, st.h), data |-> data, mixes |-> st.mixes + 1]
         IN  Strict(st1, UpdateLoop(message, pos + SC_BLOCKSIZE, endp, direct, st1))
    ELSE st

\* the variables mix() starts from: the seeds expanded, or m_state reloaded
UpdateVars(state) ==
    IF state.m_length < SC_BLOCKSIZE
    THEN SeedVars(Get(state.m_state, 0), Get(state.m_state, 1))
    ELSE state.m_state

\* mutant: the length of the buffer taken for the length of the message
UpdateLength_buffered(state, length) == length + state.m_remainder

\* the new m_length
UpdateLength(state, length) == length + state.m_length

\* "stuff away the last few bytes": if (remainder > 0) { ... }
UpdateStash(data, m_remainder, message, endp, remainder) ==
    IF remainder > 0
    THEN [m_data |-> Memcpy(data, 0, message, endp, remainder),
          m_remainder |-> remainder]
    ELSE [m_data |-> data, m_remainder |-> m_remainder]

\* the pointer arithmetic of the long path, as offsets into message:
\*   prefix = SC_BLOCKSIZE - m_remainder (uint8_t), the bytes that complete the
\*   pending block; pos = u.p8 and len2 = length once the prefix is taken;
\*   endp = u.p64 + (length/SC_BLOCKSIZE)*SC_NUMVARS; remainder (uint8_t)
UpdatePlan(state, length) ==
    LET pending == state.m_remainder # 0
        prefix == (SC_BLOCKSIZE - state.m_remainder) % ByteMod
        pos == IF pending THEN prefix ELSE 0
        len2 == IF pending THEN length - prefix ELSE length
        endp == pos + (len2 \div SC_BLOCKSIZE) * SC_BLOCKSIZE
    IN  [pending |-> pending, prefix |-> prefix, pos |-> pos, len2 |-> len2,
         endp |-> endp, remainder |-> (len2 - (endp - pos)) % ByteMod]

\* spooky_update(state, message, length): the new state, and the number of
\* mix() rounds it ran
spooky_update(state, message, length, direct) ==
    LET newLength == length + state.m_remainder
    IN  IF UpdateTooShort(newLength)
        THEN [m_data |-> Memcpy(state.m_data, state.m_remainder, message, 0, length),
              m_state |-> state.m_state,
              m_length |-> UpdateLength(state, length),
              m_remainder |-> newLength % ByteMod,
              mixes |-> 0]
        ELSE LET h0 == UpdateVars(state)
                 plan == UpdatePlan(state, length)
                 pending == plan.pending
                 prefix == plan.prefix
                 data1 == IF pending
                          THEN Memcpy(state.m_data, state.m_remainder, message, 0, prefix)
                          ELSE state.m_data
                 h1 == IF pending THEN mix(BlockAt(data1, 0), h0) ELSE h0
                 pos == plan.pos
                 endp == plan.endp
                 remainder == plan.remainder
                 st == UpdateLoop(message, pos, endp, direct,
                                  [h |-> h1, data |-> data1,
                                   mixes |-> IF pending THEN 1 ELSE 0])
                 stash == UpdateStash(st.data, state.m_remainder, message, endp, remainder)
             IN  Strict(h1, Strict(st,
                 [m_data |-> stash.m_data,
                  m_state |-> st.h,
                  m_length |-> UpdateLength(state, length),
                  m_remainder |-> stash.m_remainder,
                  mixes |-> st.mixes]))

\* does spooky_final hand the buffer to spooky_shorthash
FinalIsShort(state) == state.m_length < SC_BLOCKSIZE

\* mutant: the whole buffer cleared, the bytes stuffed away with it
FinalBlock_clearAll(data, remainder, prefix, length) ==
    PutByte(Memset(data, 0, 0, SC_BLOCKSIZE), SC_BLOCKSIZE - 1, length % ByteMod)

\* memset(&((uint8_t *)state->m_data)[remainder], 0, prefix);
\* ((uint8_t *)state->m_data)[SC_BLOCKSIZE-1] = (uint8_t)state->m_length;
FinalBlock(data, remainder, prefix, length) ==
    PutByte(Memset(data, remainder, 0, prefix), SC_BLOCKSIZE - 1, length % ByteMod)

\* spooky_final(state, &hash1, &hash2); hash1 and hash2 are the values the two
\* output words hold when it is called
spooky_final(state, hash1, hash2) ==
    IF FinalIsShort(state)
    THEN LET s == spooky_shorthash(state.m_data, state.m_length, hash1, hash2)
         IN  [m_data |-> state.m_data, hash1 |-> s.hash1, hash2 |-> s.hash2,
              path |-> "short"]
    ELSE LET remainder == state.m_remainder % ByteMod
             prefix == (SC_BLOCKSIZE - remainder) % ByteMod
             data == FinalBlock(state.m_data, remainder, prefix, state.m_length)
             hm == mix(BlockAt(data, 0), state.m_state)
             h == end(hm)
         IN  Strict(hm,
             [m_data |-> data, hash1 |-> Get(h, 0), hash2 |-> Get(h, 1),
              path |-> "long"])

----------------------------------------------------------------------------
(* the bytes the routines read and write *)

\* the offsets of message the loops over the whole blocks read, one block per
\* pass: mix(u.p64, ...) in place, or memcpy(..., u.p8, SC_BLOCKSIZE)
RECURSIVE BlockLoopReads(_, _)
BlockLoopReads(pos, endp) ==
    IF pos < endp
    THEN Span(pos, SC_BLOCKSIZE) \cup BlockLoopReads(pos + SC_BLOCKSIZE, endp)
    ELSE {}

\* the offsets of message spooky_hash128 reads on its long path: the loop, and
\* memcpy(buf, endp, remainder)
Hash128LongReads(length) ==
    BlockLoopReads(0, (length \div SC_BLOCKSIZE) * SC_BLOCKSIZE)
    \cup Span((length \div SC_BLOCKSIZE) * SC_BLOCKSIZE,
              length - (length \div SC_BLOCKSIZE) * SC_BLOCKSIZE)

\* the offsets of message spooky_hash128 reads; pos and remainder are where the
\* switch of spooky_shorthash is entered, on the short path
Hash128Reads(length, pos, remainder, direct) ==
    IF Hash128IsShort(length)
    THEN ShorthashReads(length, pos, remainder, direct)
    ELSE Hash128LongReads(length)

\* the offsets of the fragment spooky_update reads: the memcpy of the short
\* path; or the memcpy of the prefix, the loop and the memcpy of the last bytes
UpdateReads(state, length) ==
    IF UpdateTooShort(length + state.m_remainder)
    THEN Span(0, length)
    ELSE (IF UpdatePlan(state, length).pending
          THEN Span(0, UpdatePlan(state, length).prefix) ELSE {})
         \cup BlockLoopReads(UpdatePlan(state, length).pos,
                             UpdatePlan(state, length).endp)
         \cup (IF UpdatePlan(state, length).remainder > 0
               THEN Span(UpdatePlan(state, length).endp,
                         UpdatePlan(state, length).remainder)
               ELSE {})

\* the offsets of m_data spooky_update writes: the memcpy of the short path; or
\* the memcpy of the prefix, memcpy(state->m_data, u.p8, SC_BLOCKSIZE) in the
\* loop unless direct, and the memcpy of the last bytes
UpdateWrites(state, length, direct) ==
    IF UpdateTooShort(length + state.m_remainder)
    THEN Span(state.m_remainder, length)
    ELSE (IF UpdatePlan(state, length).pending
          THEN Span(state.m_remainder, UpdatePlan(state, length).prefix) ELSE {})
         \cup (IF ~direct /\ UpdatePlan(state, length).pos < UpdatePlan(state, length).endp
               THEN Span(0, SC_BLOCKSIZE) ELSE {})
         \cup (IF UpdatePlan(state, length).remainder > 0
               THEN Span(0, UpdatePlan(state, length).remainder) ELSE {})

\* the offsets of m_data spooky_final writes: nothing on the short path; the
\* memset from remainder on and the length byte on the long path
FinalWrites(state) ==
    IF FinalIsShort(state) THEN {}
    ELSE Span(state.m_remainder % ByteMod,
              (SC_BLOCKSIZE - (state.m_remainder % ByteMod)) % ByteMod)
         \cup Span(SC_BLOCKSIZE - 1, 1)

----------------------------------------------------------------------------
(* bounds and inputs *)

\* the most bytes one streaming session is fed
MaxTotal == 200
\* the longest message handed to the one-shot routines
MaxLen == 200

\* fragment lengths: empty, 45 + 50 (one byte short of a block), 46 + 50 (a
\* block), one byte short of a block, a block, one byte more, two blocks
FragLens == {0, 45, 46, 50, 95, 96, 97, 192}

\* seed pairs
Seeds == {<<U64(1), U64(2)>>, <<<<48879, 57005, 4660, 22136>>, <<1, 0, 0, 32768>>>>}

\* the caller's data: byte k (from 0) of the stream number p
SrcByte(p, k) == IF p = 0 THEN (k * 7 + 3) % ByteMod ELSE (k * 251 + 250) % ByteMod
Sources == {0, 1}
Source(p, n) == [k \in 1..n |-> SrcByte(p, k - 1)]

\* what memory that was never written may hold
Garbage == {0, 165}

\* values the two output words may hold when spooky_final is called, besides
\* the seeds themselves
OutWords == {<<Zero64, Zero64>>}

----------------------------------------------------------------------------
(* state *)

VARIABLES
    m_data,         \* struct spooky_state: the 96 bytes of m_data
    m_state,        \* the 12 words of m_state
    m_length,       \* m_length
    m_remainder,    \* m_remainder
    seed1, seed2,   \* the seeds given to spooky_init
    src,            \* the data the caller feeds, fragment after fragment
    msg,            \* the bytes appended since spooky_init
    folded,         \* the number of bytes mix() has folded into m_state
    call,           \* the most recent call on the state and what it returned
    twin,           \* a second struct, given the same spooky_init and the same
                    \* spooky_update calls and never handed to spooky_final
    arg,            \* one-shot routines: the message and the seeds
    ret             \* one-shot routines: the call made and its result

vars == <<m_data, m_state, m_length, m_remainder, seed1, seed2, src, msg,
          folded, call, twin, arg, ret>>

State == [m_data |-> m_data, m_state |-> m_state, m_length |-> m_length,
          m_remainder |-> m_remainder]

\* the struct of the twin
TwinState == [m_data |-> twin.m_data, m_state |-> twin.m_state,
              m_length |-> twin.m_length, m_remainder |-> twin.m_remainder]

\* the twin after spooky_init: folded as for the state itself, interleaved
\* whether a spooky_final that wrote into the m_data of the state has been
\* followed by a spooky_update
NewTwin(st) == [m_data |-> st.m_data, m_state |-> st.m_state,
                m_length |-> st.m_length, m_remainder |-> st.m_remainder,
                folded |-> 0, interleaved |-> FALSE]

NoCall == [op |-> "init", length |-> 0, in1 |-> Zero64, in2 |-> Zero64,
           hash1 |-> Zero64, hash2 |-> Zero64, path |-> "none"]

NoArg == [message |-> <<>>, seed1 |-> Zero64, seed2 |-> Zero64]
NoRet == [op |-> "none"]

\* spooky_init(state, seed1, seed2) on a struct whose memory holds g: m_data and
\* m_state[2..11] are left as they were
spooky_init(g, s1, s2) ==
    [m_data |-> [i \in 1..SC_BLOCKSIZE |-> g],
     m_state |-> [i \in 1..SC_NUMVARS |->
                    IF i = 1 THEN s1 ELSE IF i = 2 THEN s2
                    ELSE <<g * 257, g * 257, g * 257, g * 257>>],
     m_length |-> 0,
     m_remainder |-> 0]

Init ==
    \E sd \in Seeds, g \in Garbage, p \in Sources :
        LET st == spooky_init(g, sd[1], sd[2])
        IN  /\ m_data = st.m_data
            /\ m_state = st.m_state
            /\ m_length = st.m_length
            /\ m_remainder = st.m_remainder
            /\ seed1 = sd[1]
            /\ seed2 = sd[2]
            /\ src = Source(p, MaxTotal)
            /\ msg = <<>>
            /\ folded = 0
            /\ call = NoCall
            /\ twin = NewTwin(st)
            /\ arg = NoArg
            /\ ret = NoRet

\* whether the whole blocks are read in place is the build's and the caller's
\* choice (ALLOW_UNALIGNED_READS, the alignment of the fragment); it is read
\* only when the fragment reaches a whole block
DirectChoices(n) == IF n >= SC_BLOCKSIZE THEN BOOLEAN ELSE {TRUE}

\* spooky_update(&state, src + Len(msg), n), and the same call on the twin
\* (the same call on an equal struct has the same outcome)
Update(n, direct) ==
    /\ Len(msg) + n <= MaxTotal
    /\ LET message == SubSeq(src, Len(msg) + 1, Len(msg) + n)
       IN \E st \in {spooky_update(State, message, n, direct)} : \E
             tw \in {IF TwinState = State THEN st
                     ELSE spooky_update(TwinState, message, n, direct)} :
           /\ twin' = [m_data |-> tw.m_data, m_state |-> tw.m_state,
                       m_length |-> tw.m_length, m_remainder |-> tw.m_remainder,
                       folded |-> twin.folded + SC_BLOCKSIZE * tw.mixes,
                       interleaved |-> \/ twin.interleaved
                                       \/ call.op = "final" /\ call.path = "long"]
           /\ m_data' = st.m_data
           /\ m_state' = st.m_state
           /\ m_length' = st.m_length
           /\ m_remainder' = st.m_remainder
           /\ msg' = msg \o message
           /\ folded' = folded + SC_BLOCKSIZE * st.mixes
           /\ call' = [NoCall EXCEPT !.op = "update", !.length = n]
    /\ UNCHANGED <<seed1, seed2, src, arg, ret>>

\* spooky_final(&state, &hash1, &hash2) with hash1 = out[1], hash2 = out[2]
Final(out) ==
    /\ \E f \in {spooky_final(State, out[1], out[2])} :
           /\ m_data' = f.m_data
           /\ call' = [NoCall EXCEPT !.op = "final", !.in1 = out[1], !.in2 = out[2],
                                     !.hash1 = f.hash1, !.hash2 = f.hash2,
                                     !.path = f.path]
    /\ UNCHANGED <<m_state, m_length, m_remainder, seed1, seed2, src, msg, folded,
                   twin, arg, ret>>

Next ==
    \/ \E n \in FragLens : \E direct \in DirectChoices(n) : Update(n, direct)
    \/ \E out \in OutWords \cup {<<seed1, seed2>>} : Final(out)

Spec == Init /\ [][Next]_vars

----------------------------------------------------------------------------
(* the one-shot routines, each applied to a message and seeds drawn at the start *)

InitHash ==
    \E n \in 0..MaxLen, sd \in Seeds, p \in Sources :
        /\ arg = [message |-> Source(p, n), seed1 |-> sd[1], seed2 |-> sd[2]]
        /\ ret = NoRet
        /\ m_data = <<>>
        /\ m_state = <<>>
        /\ m_length = 0
        /\ m_remainder = 0
        /\ seed1 = sd[1]
        /\ seed2 = sd[2]
        /\ src = <<>>
        /\ msg = <<>>
        /\ folded = 0
        /\ call = NoCall
        /\ twin = NewTwin([m_data |-> <<>>, m_state |-> <<>>, m_length |-> 0,
                           m_remainder |-> 0])

StreamVars == <<m_data, m_state, m_length, m_remainder, seed1, seed2, src, msg,
                folded, call, twin>>

\* spooky_shorthash(message, length, &hash1, &hash2), for length < SC_BLOCKSIZE
CallShorthash ==
    /\ ret = NoRet
    /\ Len(arg.message) < SC_BLOCKSIZE
    /\ \E r \in {spooky_shorthash(arg.message, Len(arg.message), arg.seed1, arg.seed2)} :
          ret' = [op |-> "shorthash", r |-> r]
    /\ UNCHANGED <<arg, StreamVars>>

\* spooky_hash128(message, length, &hash1, &hash2)
CallHash128 ==
    /\ ret = NoRet
    /\ \E r \in {spooky_hash128(arg.message, Len(arg.message), arg.seed1, arg.seed2)} :
          ret' = [op |-> "hash128", r |-> r]
    /\ UNCHANGED <<arg, StreamVars>>

\* spooky_hash64(message, length, seed)
CallHash64 ==
    /\ ret = NoRet
    /\ \E r \in {spooky_hash64(arg.message, Len(arg.message), arg.seed1)} :
          ret' = [op |-> "hash64", r |-> r]
    /\ UNCHANGED <<arg, StreamVars>>

\* spooky_hash32(message, length, seed), seed the low 32 bits of seed1
CallHash32 ==
    /\ ret = NoRet
    /\ \E r \in {spooky_hash32(arg.message, Len(arg.message), Trunc32(arg.seed1))} :
          ret' = [op |-> "hash32", r |-> r]
    /\ UNCHANGED <<arg, StreamVars>>

NextHash == CallShorthash \/ CallHash128 \/ CallHash64 \/ CallHash32

SpecHash == InitHash /\ [][NextHash]_vars

----------------------------------------------------------------------------
(* properties of the streaming engine (specification Spec) *)

FinalCalled == call.op = "final"

\* the one-shot digest of everything appended, with the seeds given to spooky_init
OneShot == spooky_hash128(msg, Len(msg), seed1, seed2)

\* C1: whatever the split of the message into fragments, spooky_final returns
\* the two words spooky_hash128 returns for the whole message and the same seeds.
C1_StreamingEqualsOneShot ==
    FinalCalled => /\ call.hash1 = OneShot.hash1
                   /\ call.hash2 = OneShot.hash2

\* C2: below 96 appended bytes spooky_final returns the short hash of the
\* buffered bytes with the seeds of spooky_init as a and b, whatever the two
\* output words held when it was called.
C2_ShortFinalUsesInitSeeds ==
    (FinalCalled /\ m_length < SC_BLOCKSIZE) =>
        \A s \in {spooky_shorthash(SubSeq(m_data, 1, m_remainder), m_remainder,
                                   seed1, seed2)} :
            /\ call.hash1 = s.hash1
            /\ call.hash2 = s.hash2

\* C3: spooky_final leaves every field of the state as it was: the 96 bytes of
\* m_data, the 12 words of m_state, m_length and m_remainder.
C3_FinalLeavesStateUnchanged ==
    [][call'.op = "final" =>
         /\ m_data' = m_data
         /\ m_state' = m_state
         /\ m_length' = m_length
         /\ m_remainder' = m_remainder]_vars

\* C5: at 95 and 96 appended bytes spooky_final takes the path the one-shot
\* routine takes (short hash at 95, long blocks at 96) and returns its result,
\* for every split into fragments.
C5_ThresholdBoundary ==
    (FinalCalled /\ Len(msg) \in {SC_BLOCKSIZE - 1, SC_BLOCKSIZE}) =>
        /\ call.path = IF Len(msg) < SC_BLOCKSIZE THEN "short" ELSE "long"
        /\ call.path = OneShot.path
        /\ <<call.hash1, call.hash2>> = <<OneShot.hash1, OneShot.hash2>>

\* C6: m_data[0 .. m_remainder) are the last m_remainder bytes appended, and
\* they are exactly the bytes not yet folded into m_state:
\* folded + m_remainder = m_length, so m_remainder = m_length mod 96.
C6_BufferInvariant ==
    /\ folded + m_remainder = m_length
    /\ m_remainder = m_length % SC_BLOCKSIZE
    /\ m_remainder <= Len(msg)
    /\ SubSeq(m_data, 1, m_remainder)
         = SubSeq(msg, Len(msg) - m_remainder + 1, Len(msg))

\* C7: 0 <= m_remainder < 96 in every state spooky_init, spooky_update and
\* spooky_final can reach.
C7_RemainderInRange == m_remainder \in 0..(SC_BLOCKSIZE - 1)

\* a fragment of 96 bytes appended to 95 pending ones leaves 95 pending again
C7_Witness ==
    /\ call.op = "update"
    /\ call.length >= SC_BLOCKSIZE
    /\ m_remainder = SC_BLOCKSIZE - 1
    /\ m_length > SC_BLOCKSIZE

\* C8: every spooky_update adds the fragment length to m_length, on either
\* path, and spooky_final leaves it alone; so m_length is the number of bytes
\* appended, never decreases, and once it is 96 or more it stays so, the
\* change from below 96 happening inside a spooky_update.
C8_LengthAccounting ==
    [][/\ call'.op = "update" => m_length' = m_length + call'.length
       /\ call'.op = "final" => m_length' = m_length
       /\ m_length' = Len(msg')
       /\ m_length' >= m_length
       /\ m_length >= SC_BLOCKSIZE => m_length' >= SC_BLOCKSIZE
       /\ (m_length < SC_BLOCKSIZE /\ m_length' >= SC_BLOCKSIZE)
            => call'.op = "update"]_vars

\* an update that completes a pending partial block and crosses 96 bytes
C8_Witness ==
    /\ call.op = "update"
    /\ call.length \in 1..(SC_BLOCKSIZE - 1)
    /\ m_length >= SC_BLOCKSIZE
    /\ m_length - call.length < SC_BLOCKSIZE

----------------------------------------------------------------------------
(* properties of the one-shot routines (specification SpecHash) *)

\* the seeding of the twelve variables as the text gives it
SeededAs(s1, s2) ==
    [i \in 1..SC_NUMVARS |->
        IF (i - 1) % 3 = 0 THEN s1 ELSE IF (i - 1) % 3 = 1 THEN s2 ELSE SC_CONST]

\* the k-th (from 0) complete 96-byte block of message
WholeBlock(message, k) == BlockAt(message, SC_BLOCKSIZE * k)

\* the leftover bytes of message zero-padded to 96 bytes, the last byte the
\* length modulo 256
PaddedBlock(message) ==
    LET L == Len(message)
        done == (L \div SC_BLOCKSIZE) * SC_BLOCKSIZE
        bytes == [i \in 1..SC_BLOCKSIZE |->
                    IF i = SC_BLOCKSIZE THEN L % 256
                    ELSE IF i <= L % SC_BLOCKSIZE THEN message[done + i]
                    ELSE 0]
    IN  BlockAt(bytes, 0)

\* the blocks the long mixer is to be applied to, in order
LongBlocks(message) ==
    [k \in 1..(Len(message) \div SC_BLOCKSIZE) |-> WholeBlock(message, k - 1)]
    \o <<PaddedBlock(message)>>

\* the long mixer applied to blocks n .. Len(blocks) in order
RECURSIVE MixAll(_, _, _)
MixAll(blocks, h, n) ==
    IF n > Len(blocks) THEN h
    ELSE LET hn == mix(blocks[n], h)
         IN  Strict(hn, MixAll(blocks, hn, n + 1))

\* C4: below 96 bytes spooky_hash128 runs no long mix and returns the short
\* hash with the seeds passed through; from 96 bytes on it seeds the twelve
\* variables, mixes the floor(L/96) whole blocks in order, then once more the
\* leftover bytes zero-padded with byte 95 set to L mod 256, runs the long
\* finalizer and returns h0 and h1.
C4_OneShotStructure ==
    ret.op = "hash128" =>
        LET message == arg.message
            L == Len(message)
        IN  IF L < SC_BLOCKSIZE
            THEN \A s \in {spooky_shorthash(message, L, arg.seed1, arg.seed2)} :
                    /\ ret.r.mixed = <<>>
                    /\ ret.r.hash1 = s.hash1
                    /\ ret.r.hash2 = s.hash2
            ELSE /\ ret.r.mixed = LongBlocks(message)
                 /\ Len(ret.r.mixed) = (L \div SC_BLOCKSIZE) + 1
                 /\ \A h \in {end(MixAll(ret.r.mixed, SeededAs(arg.seed1, arg.seed2), 1))} :
                        /\ ret.r.hash1 = Get(h, 0)
                        /\ ret.r.hash2 = Get(h, 1)

\* a message of exactly two blocks: the last block mixed is all padding
C4_Witness ==
    /\ ret.op = "hash128"
    /\ Len(arg.message) = 2 * SC_BLOCKSIZE
    /\ Len(ret.r.mixed) = 3

\* C9: spooky_hash64 is the first word of spooky_hash128 with the seed as both
\* seeds; spooky_hash32 is the low 32 bits of that word for the 32-bit seed
\* zero-extended, so spooky_hash32 = spooky_hash64 mod 2^32.
C9_DerivedDigests ==
    LET message == arg.message
        L == Len(message)
    IN  /\ ret.op = "hash64" =>
              ret.r = spooky_hash128(message, L, arg.seed1, arg.seed1).hash1
        /\ ret.op = "hash32" =>
              LET s == <<arg.seed1[1], arg.seed1[2], 0, 0>>
                  w == spooky_hash128(message, L, s, s).hash1
                  v == spooky_hash64(message, L, s)
              IN  /\ ret.r = <<w[1], w[2]>>
                  /\ ret.r = <<v[1], v[2]>>

\* a long message hashed to 32 bits under a seed whose high half is not zero
C9_Witness ==
    /\ ret.op = "hash32"
    /\ Len(arg.message) > SC_BLOCKSIZE
    /\ <<arg.seed1[3], arg.seed1[4]>> # <<0, 0>>

\* C10: the value of d entering the tail packing is the value d holds after
\* the chunk steps plus ((L mod 256) << 56), modulo 2^64.
C10_LengthTagAdded ==
    ret.op = "shorthash" =>
        ret.r.tagged = Add64(Get(ret.r.chunks, 3),
                             Shl64(U64(Len(arg.message) % 256), 56))

\* message with the byte at C offset off replaced by a different one
TailFlip(message, off) == [message EXCEPT ![off + 1] = 255 - @]

\* <<c, d>> after the switch of the spooky_shorthash call made, had the tail
\* byte at offset j (from the start of the tail) been a different one
TailWith(j) ==
    ShortTail(TailFlip(arg.message, ret.r.tailpos + j), ret.r.tailpos, ret.r.tail,
              <<Get(ret.r.chunks, 2), ret.r.tagged>>)

\* the tail byte at offset j is accumulated into c, and not into d
TailByteIntoC(j) ==
    /\ TailWith(j)[1] # ret.r.packed[1]
    /\ TailWith(j)[2] = ret.r.packed[2]

\* the tail byte at offset j is accumulated into d, and not into c
TailByteIntoD(j) ==
    /\ TailWith(j)[2] # ret.r.packed[2]
    /\ TailWith(j)[1] = ret.r.packed[1]

\* C11 as stated: of the 0..15 tail bytes, those at offsets 12 and above are
\* accumulated into d and those at offsets 0 through 11 into c.
C11_TailSplitAtTwelve ==
    ret.op = "shorthash" =>
        \A j \in 0..(ret.r.tail - 1) :
            IF j >= 12 THEN TailByteIntoD(j) ELSE TailByteIntoC(j)

\* C11 amended: of the 0..15 tail bytes, those at offsets 8 and above are
\* accumulated into d and those at offsets 0 through 7 into c.
C11_TailSplitAtEight ==
    ret.op = "shorthash" =>
        \A j \in 0..(ret.r.tail - 1) :
            IF j >= 8 THEN TailByteIntoD(j) ELSE TailByteIntoC(j)

\* a short hash of more than one 32-byte set whose tail has bytes on both
\* sides of offsets 8 and 12
C11_Witness ==
    /\ ret.op = "shorthash"
    /\ ret.r.tail >= 13
    /\ ret.r.tailpos >= 32

\* <<c, d>> with the one tail byte b at offset j added at its own byte
\* position: bits 8(j mod 8) and up of the accumulator the switch sends it to
TailByteAdded(cd, j, b) ==
    IF j >= 8
    THEN <<cd[1], Add64(cd[2], Shl64(<<b, 0, 0, 0>>, 8 * (j - 8)))>>
    ELSE <<Add64(cd[1], Shl64(<<b, 0, 0, 0>>, 8 * j)), cd[2]>>

\* the tail bytes j .. t-1 of the tail at offset p added one by one
RECURSIVE BytewisePack(_, _, _, _, _)
BytewisePack(message, p, j, t, cd) ==
    IF j >= t THEN cd
    ELSE BytewisePack(message, p, j + 1, t,
                      TailByteAdded(cd, j, ByteAt(message, p + j)))

\* C12: for every tail of t = 0..15 bytes the switch, with its whole-word
\* reads, leaves in c and d what adding the t tail bytes one by one at their
\* own positions leaves, and reads exactly the t tail bytes; with t = 0 it
\* adds SC_CONST to both c and d and reads nothing.
C12_TailFastPaths ==
    ret.op = "shorthash" =>
        /\ <<ret.r.packed[1], ret.r.packed[2]>> =
              IF ret.r.tail = 0
              THEN <<Add64(Get(ret.r.chunks, 2), SC_CONST), Add64(ret.r.tagged, SC_CONST)>>
              ELSE BytewisePack(arg.message, ret.r.tailpos, 0, ret.r.tail,
                                <<Get(ret.r.chunks, 2), ret.r.tagged>>)
        /\ ShortTailReads(ret.r.tailpos, ret.r.tail) = Span(ret.r.tailpos, ret.r.tail)

\* a tail of exactly 12 bytes, read as one 64-bit and one 32-bit word, whose
\* last byte is not zero
C12_Witness ==
    /\ ret.op = "shorthash"
    /\ ret.r.tail = 12
    /\ ByteAt(arg.message, ret.r.tailpos + 11) # 0

\* the rotate amounts of the round, by index
MixRotate == <<32, 41, 12, 24, 8, 42, 32, 13, 30, 20, 47, 16>>

\* step i of the indexed round:
\*   h[i] += data[i]; h[(i+11)%12] = rot64(h[(i+11)%12], R[i]);
\*   h[(i+9)%12] ^= h[(i+1)%12]; h[(i+11)%12] += h[(i+10)%12];
\*   h[(i+1)%12] += h[(i+10)%12]
IndexedStep(h, data, i) ==
    AddVar(AddVar(XorVar(RotVar(AddWord(h, i, Get(data, i)),
                                (i + 11) % 12, MixRotate[i + 1]),
                         (i + 9) % 12, (i + 1) % 12),
                  (i + 11) % 12, (i + 10) % 12),
           (i + 1) % 12, (i + 10) % 12)

\* steps i .. 11 of the indexed round, in order
RECURSIVE IndexedRound(_, _, _)
IndexedRound(data, h, i) ==
    IF i > 11 THEN h
    ELSE Strict(IndexedStep(h, data, i),
                IndexedRound(data, IndexedStep(h, data, i), i + 1))

\* mix() and the indexed round agree on blocks n .. Len(blocks), each applied
\* to the accumulators the blocks before it left
RECURSIVE MixAgrees(_, _, _)
MixAgreesAt(blocks, h, hn, n) ==
    /\ hn = IndexedRound(blocks[n], h, 0)
    /\ MixAgrees(blocks, hn, n + 1)
MixAgrees(blocks, h, n) ==
    IF n > Len(blocks) THEN TRUE
    ELSE MixAgreesAt(blocks, h, mix(blocks[n], h), n)

\* C13: on every block spooky_hash128 hands to mix(), and the accumulators it
\* hands with it, the twelve lines of mix() compute the indexed round for
\* i = 0..11 with the rotate table {32,41,12,24,8,42,32,13,30,20,47,16}.
C13_MixIsIndexedRound ==
    ret.op = "hash128" =>
        MixAgrees(ret.r.mixed, SeedVars(arg.seed1, arg.seed2), 1)

\* a message of two whole blocks and a partial one: mix() ran three times
C13_Witness ==
    /\ ret.op = "hash128"
    /\ Len(ret.r.mixed) = 3

----------------------------------------------------------------------------
(* spooky_final calls between the spooky_update calls (specification Spec) *)

\* what spooky_final returns for the twin, the run of the same spooky_update
\* calls with no spooky_final before, the output words holding the same values
TwinFinal == spooky_final(TwinState, call.in1, call.in2)

\* C14: whatever spooky_final calls were made between the spooky_update calls,
\* the last spooky_final returns what it returns in the run without them, and
\* the spooky_update calls have folded the same bytes into the same m_state and
\* stuffed the same bytes away.
C14_FinalObservablyPure ==
    /\ FinalCalled => /\ call.hash1 = TwinFinal.hash1
                      /\ call.hash2 = TwinFinal.hash2
    /\ m_state = twin.m_state
    /\ m_length = twin.m_length
    /\ m_remainder = twin.m_remainder
    /\ folded = twin.folded
    /\ \A i \in 1..m_remainder : m_data[i] = twin.m_data[i]

\* a spooky_final on the long path, after a spooky_update that followed an
\* earlier spooky_final which had written into m_data
C14_Witness ==
    /\ FinalCalled
    /\ call.path = "long"
    /\ twin.interleaved
    /\ m_remainder > 0
    /\ folded >= SC_BLOCKSIZE

----------------------------------------------------------------------------
(* the streaming engine and the one-shot routines side by side *)

\* a streaming session, or one message for the one-shot routines
InitAll == Init \/ InitHash

\* a call on the session
StreamStep == src # <<>> /\ Next

\* a call of a one-shot routine on the message
HashStep == src = <<>> /\ NextHash

NextAll == StreamStep \/ HashStep

SpecAll == InitAll /\ [][NextAll]_vars

\* the offsets of a buffer of n bytes
Within(n) == 0..(n - 1)

\* the spooky_update call just made read the fragment and wrote m_data in bounds
UpdateInBounds ==
    /\ UpdateReads(State, call'.length) \subseteq Within(call'.length)
    /\ \A direct \in DirectChoices(call'.length) :
          UpdateWrites(State, call'.length, direct) \subseteq Within(SC_BLOCKSIZE)
    /\ ~UpdateTooShort(call'.length + m_remainder) /\ m_remainder # 0 =>
          UpdatePlan(State, call'.length).prefix <= call'.length

\* where the switch of spooky_shorthash is entered for the bytes in m_data
FinalChunks == ShortChunks(m_data, m_length, call'.in1, call'.in2)

\* the spooky_final call just made wrote m_data from m_remainder on only, and
\* on its short path spooky_shorthash read the m_length bytes in m_data only
FinalInBounds ==
    /\ FinalWrites(State) \subseteq m_remainder..(SC_BLOCKSIZE - 1)
    /\ FinalIsShort(State) =>
          ShorthashReads(m_length, FinalChunks.pos, FinalChunks.remainder, TRUE)
              \subseteq Within(m_length)

\* spooky_shorthash read the message in bounds, whichever way the build reads
ShorthashInBounds ==
    \A direct \in BOOLEAN :
        ShorthashReads(Len(arg.message), ret.r.tailpos, ret.r.tail, direct)
            \subseteq Within(Len(arg.message))

\* where the switch of spooky_shorthash is entered for the message
ArgChunks == ShortChunks(arg.message, Len(arg.message), arg.seed1, arg.seed2)

\* spooky_hash128 read the message in bounds
Hash128InBounds ==
    \A direct \in BOOLEAN :
        Hash128Reads(Len(arg.message), ArgChunks.pos, ArgChunks.remainder, direct)
            \subseteq Within(Len(arg.message))

\* C15: after spooky_init and any spooky_update and spooky_final calls, each
\* spooky_update reads only offsets [0, length) of its fragment and writes only
\* offsets [0, 96) of m_data, the prefix it copies never longer than the
\* fragment; each spooky_final writes only offsets [m_remainder, 96) of m_data;
\* spooky_shorthash and spooky_hash128 on L bytes read only offsets [0, L).
C15_BoundsSafety ==
    /\ [][/\ call'.op = "update" => UpdateInBounds
          /\ call'.op = "final" => FinalInBounds]_vars
    /\ [](ret.op = "shorthash" => ShorthashInBounds)
    /\ [](ret.op = "hash128" => Hash128InBounds)

\* a fragment of 50 bytes after 50 buffered bytes: its first 46 bytes have
\* completed the pending block and its last 4 bytes are stuffed away
C15_Witness ==
    /\ call.op = "update"
    /\ call.length = 50
    /\ m_length = 100
    /\ folded = SC_BLOCKSIZE
    /\ m_remainder = 4

=============================================================================
